---------------------------- MODULE Spec2Model ----------------------------
(***************************************************************************)
(* A model of cc-health-check (src/cli.mjs): the collection of the inputs  *)
(* at module load, the registry of 20 checks, runChecks, the renderers and *)
(* the exit status.  Texts are TLA+ strings handled character by           *)
(* character (Len, SubSeq and \o apply to strings in TLC), so that         *)
(* includes, toLowerCase, split and the secret-detecting regular           *)
(* expression are computed as the code computes them.                      *)
(***************************************************************************)
EXTENDS Integers, Sequences, FiniteSets, TLC

VARIABLES
    pc,                \* position in the top-level script of cli.mjs
    fs,                \* the file system: path -> entry (environment)
    cwd,               \* process.cwd() (environment)
    settings,          \* const settings          (line 103)
    allHooks,          \* const allHooks          (line 104)
    allHookText,       \* const allHookText       (line 105)
    claudeMdContents,  \* const claudeMdContents  (lines 118-121)
    hasMemoryDir,      \* const hasMemoryDir      (line 124)
    hasMissionMd,      \* const hasMissionMd      (lines 125-127)
    jsonMode,          \* const jsonMode          (line 587)
    badgeMode,         \* const badgeMode         (line 588)
    idx,               \* runChecks: number of checks evaluated so far
    earned,            \* runChecks: let earned
    results,           \* runChecks: const results
    dimScores,         \* runChecks: const dimScores
    dimTotals,         \* runChecks: const dimTotals
    totalPts,          \* runChecks: const totalPts
    pct,               \* runChecks: const pct
    grade,             \* runChecks: let grade
    stdout,            \* what the selected renderer printed
    exitCode,          \* the process exit status, -1 while running
    error              \* the uncaught exception that ended the process

vars == <<pc, fs, cwd, settings, allHooks, allHookText, claudeMdContents,
          hasMemoryDir, hasMissionMd, jsonMode, badgeMode, idx, earned,
          results, dimScores, dimTotals, totalPts, pct, grade, stdout,
          exitCode, error>>

-----------------------------------------------------------------------------
(* Strings *)

\* String.prototype.includes
Includes(t, k) ==
    \E i \in 1..(Len(t) - Len(k) + 1) : SubSeq(t, i, i + Len(k) - 1) = k

\* String.prototype.startsWith / endsWith
StartsWith(t, k) == Len(k) <= Len(t) /\ SubSeq(t, 1, Len(k)) = k
EndsWith(t, k) == Len(k) <= Len(t) /\ SubSeq(t, Len(t) - Len(k) + 1, Len(t)) = k

CharAt(t, i) == SubSeq(t, i, i)

\* String.prototype.substring(i - 1, j): the characters i..j that t has
Slice(t, i, j) == IF i > Len(t) THEN "" ELSE SubSeq(t, i, IF j > Len(t) THEN Len(t) ELSE j)

UpperChars == "ABCDEFGHIJKLMNOPQRSTUVWXYZ"
LowerChars == "abcdefghijklmnopqrstuvwxyz"
DigitChars == "0123456789"

\* the lower-case letter of each upper-case letter
LowerOf == [c \in {CharAt(UpperChars, k) : k \in 1..Len(UpperChars)} |->
              CharAt(LowerChars, CHOOSE k \in 1..Len(UpperChars) : CharAt(UpperChars, k) = c)]

LowerChar(c) == IF c \in DOMAIN LowerOf THEN LowerOf[c] ELSE c

RECURSIVE ToLowerCase(_)
\* String.prototype.toLowerCase, half by half
ToLowerCase(t) ==
    IF Len(t) = 0 THEN ""
    ELSE IF Len(t) = 1 THEN LowerChar(t)
    ELSE LET h == Len(t) \div 2
         IN ToLowerCase(SubSeq(t, 1, h)) \o ToLowerCase(SubSeq(t, h + 1, Len(t)))

\* the regular expression class \s, for the characters the inputs use
IsSpace(c) == c \in {" ", "\n", "\t"}

\* the least element of a non-empty set of integers
Least(S) == CHOOSE k \in S : \A j \in S : k <= j

RECURSIVE PartsFrom(_, _)
\* the maximal runs of non-space characters of t that start at the positions
\* in starts, from left to right
PartsFrom(t, starts) ==
    IF starts = {} THEN <<>>
    ELSE LET i == Least(starts)
             last == Least({j \in i..Len(t) : j = Len(t) \/ IsSpace(CharAt(t, j + 1))})
         IN <<SubSeq(t, i, last)>> \o PartsFrom(t, starts \ {i})

\* String.prototype.split(/\s+/): the runs of non-space characters, with an
\* empty string before a leading and after a trailing run of spaces
SplitWs(t) ==
    IF t = "" THEN <<"">>
    ELSE LET starts == {i \in 1..Len(t) :
                          ~IsSpace(CharAt(t, i)) /\ (i = 1 \/ IsSpace(CharAt(t, i - 1)))}
         IN (IF IsSpace(CharAt(t, 1)) THEN <<"">> ELSE <<>>)
            \o PartsFrom(t, starts)
            \o (IF IsSpace(CharAt(t, Len(t))) THEN <<"">> ELSE <<>>)

RECURSIVE JoinWith(_, _)
\* Array.prototype.join on an array of strings
JoinWith(parts, sep) ==
    IF Len(parts) = 0 THEN ""
    ELSE IF Len(parts) = 1 THEN parts[1]
    ELSE parts[1] \o sep \o JoinWith(Tail(parts), sep)

RECURSIVE NumberToString(_)
\* String(n) for a natural number n
NumberToString(n) ==
    IF n < 10 THEN CharAt(DigitChars, n + 1)
    ELSE NumberToString(n \div 10) \o CharAt(DigitChars, (n % 10) + 1)

RECURSIVE Pick(_, _)
\* Array.prototype.filter: the elements of list at the positions in keep, in
\* the order of the list
Pick(list, keep) ==
    IF keep = {} THEN <<>>
    ELSE LET i == CHOOSE k \in keep : \A j \in keep : k <= j
         IN <<list[i]>> \o Pick(list, keep \ {i})

-----------------------------------------------------------------------------
(* JSON values, as JSON.parse returns them *)

JUndefined == [t |-> "undefined"]
JString(s) == [t |-> "string", v |-> s]
JNumber(n) == [t |-> "number", v |-> n]
JArray(a) == [t |-> "array", v |-> a]
\* an object with the keys the code reads; an absent key is JUndefined
JObject(command, script, hooks) ==
    [t |-> "object", command |-> command, script |-> script, hooks |-> hooks]

\* ToBoolean
Truthy(j) ==
    CASE j.t = "string" -> j.v # ""
      [] j.t = "number" -> j.v # 0
      [] j.t \in {"object", "array", "dict"} -> TRUE
      [] OTHER -> FALSE

\* a || b
JOr(a, b) == IF Truthy(a) THEN a ELSE b

\* x?.command, x?.script, x?.hooks
GetCommand(j) == IF j.t = "object" THEN j.command ELSE JUndefined
GetScript(j) == IF j.t = "object" THEN j.script ELSE JUndefined
GetHooks(j) == IF j.t = "object" THEN j.hooks ELSE JUndefined

\* String(x), as Array.prototype.join applies it to an element
JToString(j) ==
    CASE j.t = "string" -> j.v
      [] j.t = "number" -> NumberToString(j.v)
      [] j.t = "object" -> "[object Object]"
      [] OTHER -> ""

\* Object.entries, for the values the hooks key takes in the inputs
JNull == [t |-> "null"]
JDict(entries) == [t |-> "dict", entries |-> entries]
ObjectEntries(j) == IF j.t = "dict" THEN j.entries ELSE <<>>

-----------------------------------------------------------------------------
(* Paths and the file system *)

HOME == "/home/u"
PROJECT == "/work/app"

\* path.join of a normalized directory and a relative path
PathJoin(a, b) == a \o "/" \o b

CC_DIR == PathJoin(HOME, ".claude")
SETTINGS_PATH == PathJoin(CC_DIR, "settings.json")

\* File system entries.  A settings file is given by what JSON.parse makes
\* of its text: a syntax error, or the parsed value.
TextFile(text) == [kind |-> "file", text |-> text]
JsonFile(value) == [kind |-> "file", parses |-> TRUE, value |-> value]
BrokenJsonFile == [kind |-> "file", parses |-> FALSE]
Directory == [kind |-> "dir"]
NoPermFile == [kind |-> "noperm"]

\* fs.existsSync
existsSync(p) == p \in DOMAIN fs

\* fs.readFileSync succeeds on a readable regular file and throws otherwise
\* (ENOENT, EISDIR, EACCES)
ReadThrows(p) == ~existsSync(p) \/ fs[p].kind # "file"

\* readJSON (lines 36-42): null on any failure
readJSON(path) ==
    IF ReadThrows(path) THEN JNull
    ELSE IF ~fs[path].parses THEN JNull
    ELSE fs[path].value

\* fileContains (lines 44-51)
fileContains(path, patterns) ==
    IF ReadThrows(path) THEN FALSE
    ELSE LET content == ToLowerCase(fs[path].text)
         IN \E k \in 1..Len(patterns) : Includes(content, ToLowerCase(patterns[k]))

-----------------------------------------------------------------------------
(* getAllHookCommands (lines 80-100) *)

\* h?.command || h?.script || ''
CommandOf(h) == JOr(JOr(GetCommand(h), GetScript(h)), JString(""))

RECURSIVE NestedCommands(_, _, _)
\* lines 88-91, from hook number k on
NestedCommands(event, hooks, k) ==
    IF k > Len(hooks) THEN <<>>
    ELSE LET cmd == CommandOf(hooks[k])
         IN (IF Truthy(cmd) THEN <<[event |-> event, command |-> cmd]>> ELSE <<>>)
            \o NestedCommands(event, hooks, k + 1)

\* lines 87-96, for one matcher
MatcherCommands(event, matcher) ==
    IF Truthy(GetHooks(matcher)) /\ GetHooks(matcher).t = "array"
    THEN NestedCommands(event, GetHooks(matcher).v, 1)
    ELSE LET cmd == IF matcher.t = "string" THEN matcher ELSE CommandOf(matcher)
         IN IF Truthy(cmd) THEN <<[event |-> event, command |-> cmd]>> ELSE <<>>

RECURSIVE MatcherListCommands(_, _, _)
MatcherListCommands(event, list, k) ==
    IF k > Len(list) THEN <<>>
    ELSE MatcherCommands(event, list[k]) \o MatcherListCommands(event, list, k + 1)

RECURSIVE EntriesCommands(_, _)
\* lines 83-98, from entry number k on
EntriesCommands(entries, k) ==
    IF k > Len(entries) THEN <<>>
    ELSE LET matchers == entries[k].value
             matcherList == IF matchers.t = "array" THEN matchers.v ELSE <<matchers>>
         IN MatcherListCommands(entries[k].key, matcherList, 1)
            \o EntriesCommands(entries, k + 1)

getAllHookCommands(s) ==
    IF ~Truthy(GetHooks(s)) THEN <<>>
    ELSE EntriesCommands(ObjectEntries(GetHooks(s)), 1)

RECURSIVE CommandStrings(_)
\* allHooks.map(h => h.command), each element as join converts it
CommandStrings(hooks) ==
    IF Len(hooks) = 0 THEN <<>>
    ELSE <<JToString(hooks[1].command)>> \o CommandStrings(Tail(hooks))

\* claudeMdPaths (lines 108-117)
claudeMdPaths ==
    <<PathJoin(HOME, "CLAUDE.md"), PathJoin(PathJoin(HOME, ".claude"), "CLAUDE.md")>>
    \o (IF cwd # HOME
        THEN <<PathJoin(cwd, "CLAUDE.md"), PathJoin(PathJoin(cwd, ".claude"), "CLAUDE.md")>>
        ELSE <<>>)

RECURSIVE LowerTexts(_)
\* .map(p => readFileSync(p, 'utf-8').toLowerCase()) on readable paths
LowerTexts(paths) ==
    IF Len(paths) = 0 THEN <<>>
    ELSE <<ToLowerCase(fs[paths[1]].text)>> \o LowerTexts(Tail(paths))

-----------------------------------------------------------------------------
(* The 20 checks (lines 130-439): category, question, weight, remediation *)

\* Check with the bug of giving every check the weight 5
CheckWeighsFive(cat, q, w, fix) == [cat |-> cat, q |-> q, w |-> 5, fix |-> fix]

Check(cat, q, w, fix) == [cat |-> cat, q |-> q, w |-> w, fix |-> fix]

checks == <<
    Check("Safety Guards",
          "PreToolUse hook blocks dangerous commands (rm -rf, git reset --hard)",
          5,
          "Add a PreToolUse hook that blocks destructive commands. A single shell script can catch rm -rf, force push, and database drops."),
    Check("Safety Guards",
          "API keys stored in dedicated files (not hardcoded in CLAUDE.md)",
          5,
          "Move API keys out of CLAUDE.md into ~/.credentials or environment variables."),
    Check("Safety Guards",
          "Setup prevents pushing to main/master without review",
          5,
          "Add a PreToolUse hook that checks the target branch before git push. Block direct pushes to main/master."),
    Check("Safety Guards",
          "Error-aware gate blocks external calls when errors exist",
          5,
          "Add an error-tracker that prevents publishing or pushing when unresolved errors exist."),
    Check("Code Quality",
          "Syntax checks run after every file edit (PostToolUse hook)",
          5,
          "Add a PostToolUse hook on Edit/Write that runs language-specific syntax checks (py_compile, eslint, bash -n)."),
    Check("Code Quality",
          "Error detection and tracking from command output",
          5,
          "Scan bash output for error patterns in PostToolUse hooks. Track repeated errors and escalate."),
    Check("Code Quality",
          "Definition of Done (DoD) checklist exists for task completion",
          5,
          "Define what \"done\" means: tests pass, no open errors, syntax clean, docs updated."),
    Check("Code Quality",
          "AI verifies its own output (screenshots, GET requests after publishing)",
          5,
          "Add verification steps to your workflow: after publishing or deploying, confirm the result matches expectations."),
    Check("Monitoring",
          "Context window usage monitored with alerts before it fills up",
          5,
          "Add a PostToolUse hook that checks context percentage and alerts before it fills up. Auto-compact at critical levels."),
    Check("Monitoring",
          "Activity logging tracks what commands ran, when, and what changed",
          5,
          "Add a PostToolUse hook that logs every tool use to a JSONL file with timestamps."),
    Check("Monitoring",
          "Daily summaries of AI work are generated (proof-log, session reports)",
          5,
          "Write a Stop hook that generates a 5W1H summary at session end. Makes handoffs and audits trivial."),
    Check("Recovery",
          "Git backup branches created before major changes",
          5,
          "Add \"git checkout -b backup/before-changes\" to your CLAUDE.md instructions before risky operations."),
    Check("Recovery",
          "Watchdog detects and recovers from hangs/idle states",
          5,
          "Implement a tmux-based watchdog that detects idle/frozen states and automatically nudges or restarts the agent."),
    Check("Recovery",
          "Fallback plan exists for when AI gets stuck in a loop",
          5,
          "Track repeated command patterns. If the same error appears 3+ times, break the loop and escalate."),
    Check("Autonomy",
          "AI can run tasks from a queue without human prompting",
          5,
          "Create a task-queue.yaml with status tracking (pending/in-progress/done) that the AI reads and executes."),
    Check("Autonomy",
          "Setup blocks the AI from asking unnecessary questions",
          5,
          "Add a hook or CLAUDE.md rule that redirects question-asking patterns to autonomous decision-making."),
    Check("Autonomy",
          "AI can continue working across session restarts (persistent state)",
          5,
          "Use mission.md or MEMORY.md to maintain state across context compactions and session restarts."),
    Check("Coordination",
          "Decision audit trail logs why each decision was made",
          5,
          "Track decisions with rationale - what was decided, why, and what alternatives were rejected."),
    Check("Coordination",
          "AI can coordinate with other AI instances or tools",
          3,
          "Enable file-based or tmux-based messaging between AI instances for parallel work."),
    Check("Coordination",
          "Structured way to capture and reuse lessons learned",
          2,
          "Maintain a LESSONS.md file to log errors and their fixes for future reference.")
>>

NumChecks == Len(checks)

\* what a test() call does: return { pass, detail }, or throw
Returns(pass, detail) == [throws |-> FALSE, pass |-> pass, detail |-> detail]
Throws == [throws |-> TRUE]

\* allHookText.includes(k), claudeMdContents.includes(k)
HookTextHas(k) == Includes(allHookText, k)
ClaudeMdHas(k) == Includes(claudeMdContents, k)

IsPreHook(h) == Includes(ToLowerCase(h.event), "pretooluse")
IsPostHook(h) == Includes(ToLowerCase(h.event), "posttooluse")

\* a call of a String method on h.command throws a TypeError on a number
\* or an object
NotAString(h) == h.command.t # "string"

\* lines 139-143: the callback of preHooks.some
GuardCommand(h) ==
    LET cmd == ToLowerCase(h.command.v)
    IN Includes(cmd, "rm") \/ Includes(cmd, "guard") \/ Includes(cmd, "safe")
       \/ Includes(cmd, "block") \/ Includes(cmd, "deny") \/ Includes(cmd, "cdp")

\* lines 213-217: the callback of postHooks.some
SyntaxCommand(h) ==
    LET cmd == ToLowerCase(h.command.v)
    IN Includes(cmd, "syntax") \/ Includes(cmd, "compile") \/ Includes(cmd, "lint")
       \/ Includes(cmd, "py_compile") \/ Includes(cmd, "eslint") \/ Includes(cmd, "check")

\* Array.prototype.some with a callback that throws on a non-string command:
\* the elements are visited in order up to the first of those in stop, the
\* ones that match or throw
SomeOutcome(hooks, stop) ==
    IF stop = {} THEN "false"
    ELSE IF NotAString(hooks[Least(stop)]) THEN "throws"
    ELSE "true"

\* lines 146-147: the first part of the command that names a script
ScriptPart(command) ==
    LET parts == SplitWs(command)
        named == {k \in 1..Len(parts) :
                    EndsWith(parts[k], ".sh") \/ EndsWith(parts[k], ".js")
                    \/ EndsWith(parts[k], ".py")}
    IN IF named = {} THEN "" ELSE parts[Least(named)]

RECURSIVE ScriptFiles(_)
\* lines 145-148: preHooks.map(...).filter(Boolean), on string commands
ScriptFiles(hooks) ==
    IF Len(hooks) = 0 THEN <<>>
    ELSE LET sf == ScriptPart(hooks[1].command.v)
         IN (IF sf # "" THEN <<sf>> ELSE <<>>) \o ScriptFiles(Tail(hooks))

SafetyPatterns == <<"rm -rf", "reset --hard", "force", "block", "deny", "BLOCK">>

\* line 151
ScriptFullPath(sf) == IF StartsWith(sf, "/") THEN sf ELSE PathJoin(HOME, sf)

\* checks[0].test (lines 136-159)
Test01 ==
    LET preHooks == Pick(allHooks, {k \in 1..Len(allHooks) : IsPreHook(allHooks[k])})
    IN IF Len(preHooks) = 0 THEN Returns(FALSE, "No PreToolUse hooks found")
       ELSE IF \E k \in 1..Len(preHooks) : NotAString(preHooks[k]) THEN Throws
       ELSE LET hasGuard == \E k \in 1..Len(preHooks) : GuardCommand(preHooks[k])
                scriptFiles == ScriptFiles(preHooks)
                found == {k \in 1..Len(scriptFiles) :
                            fileContains(ScriptFullPath(scriptFiles[k]), SafetyPatterns)}
                n == NumberToString(Len(preHooks))
            IN IF found # {}
               THEN Returns(TRUE, "Safety hook found: "
                                  \o scriptFiles[Least(found)])
               ELSE IF hasGuard
               THEN Returns(TRUE, n \o " PreToolUse hook(s) with safety patterns")
               ELSE Returns(FALSE, n \o " PreToolUse hook(s) found but no safety patterns detected")

\* [a-z0-9] under the flag i, \s, [^"']
AlnumChars == {CharAt(LowerChars, k) : k \in 1..Len(LowerChars)}
              \cup {CharAt(DigitChars, k) : k \in 1..Len(DigitChars)}
IsAlnum(c) == LowerChar(c) \in AlnumChars
IsQuote(c) == c \in {"\"", "'"}

\* [a-z0-9]{n,} matches at i: n characters of the class follow
AlnumRunAt(t, i, n) == \A j \in i..(i + n - 1) : j <= Len(t) /\ IsAlnum(CharAt(t, j))

\* [^"']{n,} matches at i
NonQuoteRunAt(t, i, n) == \A j \in i..(i + n - 1) : j <= Len(t) /\ ~IsQuote(CharAt(t, j))

\* the position after the run of \s that starts at i
SkipSpaces(t, i) == Least({j \in i..(Len(t) + 1) : j > Len(t) \/ ~IsSpace(CharAt(t, j))})

\* line 167: /sk-[a-z0-9]{20,}|ghp_[a-z0-9]{36}|token\s*[:=]\s*["\'][^"\']{20,}/i
\* matches somewhere in t
MatchesSecret(t) ==
    \E i \in 1..Len(t) :
        \/ ToLowerCase(Slice(t, i, i + 2)) = "sk-" /\ AlnumRunAt(t, i + 3, 20)
        \/ ToLowerCase(Slice(t, i, i + 3)) = "ghp_" /\ AlnumRunAt(t, i + 4, 36)
        \/ /\ ToLowerCase(Slice(t, i, i + 4)) = "token"
           /\ LET a == SkipSpaces(t, i + 5)
                  b == SkipSpaces(t, a + 1)
              IN /\ a <= Len(t) /\ CharAt(t, a) \in {":", "="}
                 /\ b <= Len(t) /\ IsQuote(CharAt(t, b))
                 /\ NonQuoteRunAt(t, b + 1, 20)

\* Test02 with the bug of passing only when a credentials file exists
Test02NeedsCredFile ==
    IF MatchesSecret(claudeMdContents)
    THEN Returns(FALSE, "Possible API key found in CLAUDE.md")
    ELSE LET hasCredFile == \/ existsSync(PathJoin(HOME, ".credentials"))
                            \/ existsSync(PathJoin(HOME, ".env"))
                            \/ existsSync(PathJoin(HOME, ".secrets"))
         IN Returns(hasCredFile, IF hasCredFile THEN "Credentials stored in dedicated file"
                                 ELSE "No leaked keys detected in CLAUDE.md")

\* checks[1].test (lines 166-173)
Test02 ==
    IF MatchesSecret(claudeMdContents)
    THEN Returns(FALSE, "Possible API key found in CLAUDE.md")
    ELSE LET hasCredFile == \/ existsSync(PathJoin(HOME, ".credentials"))
                            \/ existsSync(PathJoin(HOME, ".env"))
                            \/ existsSync(PathJoin(HOME, ".secrets"))
         IN Returns(TRUE, IF hasCredFile THEN "Credentials stored in dedicated file"
                          ELSE "No leaked keys detected in CLAUDE.md")

\* checks[2].test (lines 180-188)
Test03 ==
    LET hasBranchGuard == HookTextHas("main") \/ HookTextHas("master")
                          \/ HookTextHas("branch") \/ HookTextHas("push")
        claudeHasRule == ClaudeMdHas("feature branch")
                         \/ (ClaudeMdHas("push") /\ ClaudeMdHas("main"))
    IN IF hasBranchGuard \/ claudeHasRule
       THEN Returns(TRUE, "Branch protection detected")
       ELSE Returns(FALSE, "No branch protection rules found")

\* checks[3].test (lines 195-202)
Test04 ==
    LET hasErrGate == HookTextHas("error") \/ HookTextHas("err-tracker")
                      \/ HookTextHas("err_code")
        claudeHasErrRule == ClaudeMdHas("error") /\ ClaudeMdHas("block")
    IN IF hasErrGate \/ claudeHasErrRule
       THEN Returns(TRUE, "Error-aware gating detected")
       ELSE Returns(FALSE, "No error-aware gate found")

\* checks[4].test (lines 211-221)
Test05 ==
    LET postHooks == Pick(allHooks, {k \in 1..Len(allHooks) : IsPostHook(allHooks[k])})
        stop == {k \in 1..Len(postHooks) :
                    NotAString(postHooks[k]) \/ SyntaxCommand(postHooks[k])}
        hasSyntax == SomeOutcome(postHooks, stop)
    IN IF hasSyntax = "throws" THEN Throws
       ELSE IF hasSyntax = "true"
       THEN Returns(TRUE, "Post-edit syntax checking configured")
       ELSE Returns(FALSE, "No syntax check hook found in PostToolUse")

\* Test06 with the bug of reading the instruction text as well
Test06ReadsClaudeMd ==
    LET hasErrDetect == HookTextHas("error") \/ HookTextHas("stderr")
                        \/ HookTextHas("exit_code") \/ HookTextHas("err-code")
                        \/ ClaudeMdHas("error")
    IN IF hasErrDetect
       THEN Returns(TRUE, "Error detection patterns found in hooks")
       ELSE Returns(FALSE, "No error detection in command output")

\* checks[5].test (lines 228-234)
Test06 ==
    LET hasErrDetect == HookTextHas("error") \/ HookTextHas("stderr")
                        \/ HookTextHas("exit_code") \/ HookTextHas("err-code")
    IN IF hasErrDetect
       THEN Returns(TRUE, "Error detection patterns found in hooks")
       ELSE Returns(FALSE, "No error detection in command output")

\* checks[6].test (lines 241-249)
Test07 ==
    LET hasDod == ClaudeMdHas("definition of done") \/ ClaudeMdHas("dod")
                  \/ ClaudeMdHas("done checklist") \/ ClaudeMdHas("completion criteria")
        dodFile == existsSync(PathJoin(CC_DIR, "dod-checklists.md"))
                   \/ existsSync(PathJoin(cwd, "dod-checklists.md"))
    IN IF hasDod \/ dodFile
       THEN Returns(TRUE, "DoD criteria found")
       ELSE Returns(FALSE, "No Definition of Done checklist detected")

\* checks[7].test (lines 256-262)
Test08 ==
    LET hasVerify == ClaudeMdHas("verify") \/ ClaudeMdHas("screenshot")
                     \/ ClaudeMdHas("confirmation") \/ ClaudeMdHas("proof")
    IN IF hasVerify
       THEN Returns(TRUE, "Output verification instructions found")
       ELSE Returns(FALSE, "No output verification pattern detected")

\* checks[8].test (lines 271-277)
Test09 ==
    LET hasContextMon == HookTextHas("context") \/ HookTextHas("compact")
                         \/ HookTextHas("token")
    IN IF hasContextMon
       THEN Returns(TRUE, "Context window monitoring detected")
       ELSE Returns(FALSE, "No context window monitoring")

\* checks[9].test (lines 284-290)
Test10 ==
    LET hasActivityLog == HookTextHas("activity") \/ HookTextHas("log")
                          \/ HookTextHas("jsonl") \/ HookTextHas("audit")
    IN IF hasActivityLog
       THEN Returns(TRUE, "Activity logging detected")
       ELSE Returns(FALSE, "No activity logging configured")

\* checks[10].test (lines 297-304)
Test11 ==
    LET hasProofLog == HookTextHas("proof") \/ HookTextHas("summary")
                       \/ HookTextHas("session") \/ HookTextHas("digest")
        proofLogDir == existsSync(PathJoin(PathJoin(HOME, "ops"), "proof-log"))
    IN IF hasProofLog \/ proofLogDir
       THEN Returns(TRUE, "Daily summarization configured")
       ELSE Returns(FALSE, "No daily summary generation")

\* checks[11].test (lines 313-318)
Test12 ==
    LET hasBackup == ClaudeMdHas("backup") \/ ClaudeMdHas("backup/before")
    IN IF hasBackup
       THEN Returns(TRUE, "Backup branch instructions found in CLAUDE.md")
       ELSE Returns(FALSE, "No backup branch strategy detected")

\* checks[12].test (lines 325-334)
Test13 ==
    LET hasWatchdog == HookTextHas("watchdog") \/ HookTextHas("idle")
                       \/ HookTextHas("nudge") \/ HookTextHas("heartbeat")
        watchdogExists == existsSync(PathJoin(PathJoin(HOME, "bin"), "cc-solo-watchdog"))
                          \/ existsSync(PathJoin(PathJoin(HOME, ".claude"), "cc-solo-watchdog"))
    IN IF hasWatchdog \/ watchdogExists
       THEN Returns(TRUE, "Watchdog mechanism detected")
       ELSE Returns(FALSE, "No watchdog for hang/idle detection")

\* checks[13].test (lines 341-348)
Test14 ==
    LET hasLoopDetect == ClaudeMdHas("loop") \/ ClaudeMdHas("retry")
                         \/ ClaudeMdHas("3 times") \/ ClaudeMdHas("escalat")
        hasRootCause == HookTextHas("root-cause") \/ HookTextHas("loop")
    IN IF hasLoopDetect \/ hasRootCause
       THEN Returns(TRUE, "Loop detection / retry limits found")
       ELSE Returns(FALSE, "No loop detection or retry limits")

\* checks[14].test (lines 357-365)
Test15 ==
    LET hasQueue == existsSync(PathJoin(PathJoin(HOME, "ops"), "task-queue.yaml"))
                    \/ existsSync(PathJoin(cwd, "task-queue.yaml"))
                    \/ existsSync(PathJoin(PathJoin(cwd, "tasks"), "todo.md"))
        claudeHasQueue == ClaudeMdHas("task queue") \/ ClaudeMdHas("task-queue")
    IN IF hasQueue \/ claudeHasQueue
       THEN Returns(TRUE, "Task queue mechanism found")
       ELSE Returns(FALSE, "No task queue for autonomous execution")

\* The two Japanese keywords of lines 374-375 and 432, written by their code
\* points: the module is ASCII
KwShitsumon == "U+8CEA U+554F"
KwJibunDeHandan == "U+81EA U+5206 U+3067 U+5224 U+65AD"
KwKyokun == "U+6559 U+8A13"

\* checks[15].test (lines 372-379)
Test16 ==
    LET hasNoAsk == HookTextHas("no-ask") \/ HookTextHas("question")
                    \/ ClaudeMdHas("don't ask") \/ ClaudeMdHas(KwShitsumon)
                    \/ ClaudeMdHas(KwJibunDeHandan)
    IN IF hasNoAsk
       THEN Returns(TRUE, "Question-blocking rules detected")
       ELSE Returns(FALSE, "No rules to prevent unnecessary questions")

\* checks[16].test (lines 386-393)
Test17 ==
    LET hasPersist == hasMemoryDir \/ hasMissionMd
                      \/ ClaudeMdHas("memory") \/ ClaudeMdHas("mission.md")
                      \/ ClaudeMdHas("persistent")
    IN IF hasPersist
       THEN Returns(TRUE, "State persistence mechanism found")
       ELSE Returns(FALSE, "No persistent state mechanism")

\* checks[17].test (lines 402-408)
Test18 ==
    LET hasDecLog == HookTextHas("decision") \/ HookTextHas("rationale")
                     \/ existsSync(PathJoin(PathJoin(HOME, "ops"), "decision-log.jsonl"))
    IN IF hasDecLog
       THEN Returns(TRUE, "Decision logging found")
       ELSE Returns(FALSE, "No decision audit trail")

\* checks[18].test (lines 415-422)
Test19 ==
    LET hasCoord == ClaudeMdHas("multi-agent") \/ ClaudeMdHas("codex")
                    \/ ClaudeMdHas("team") \/ ClaudeMdHas("subagent")
                    \/ HookTextHas("relay") \/ HookTextHas("tachikoma")
    IN IF hasCoord
       THEN Returns(TRUE, "Multi-agent coordination found")
       ELSE Returns(FALSE, "No multi-agent coordination")

\* checks[19].test (lines 429-436)
Test20 ==
    LET hasLessons == existsSync(PathJoin(PathJoin(cwd, "tasks"), "lessons.md"))
                      \/ existsSync(PathJoin(cwd, "LESSONS.md"))
                      \/ ClaudeMdHas("lesson") \/ ClaudeMdHas(KwKyokun)
    IN IF hasLessons
       THEN Returns(TRUE, "Lesson capture mechanism found")
       ELSE Returns(FALSE, "No structured lesson capture")

\* ch.test() for the check at position i of the registry
Test(i) ==
    CASE i = 1 -> Test01 [] i = 2 -> Test02 [] i = 3 -> Test03 [] i = 4 -> Test04
      [] i = 5 -> Test05 [] i = 6 -> Test06 [] i = 7 -> Test07 [] i = 8 -> Test08
      [] i = 9 -> Test09 [] i = 10 -> Test10 [] i = 11 -> Test11 [] i = 12 -> Test12
      [] i = 13 -> Test13 [] i = 14 -> Test14 [] i = 15 -> Test15 [] i = 16 -> Test16
      [] i = 17 -> Test17 [] i = 18 -> Test18 [] i = 19 -> Test19 [] i = 20 -> Test20

-----------------------------------------------------------------------------
(* runChecks (lines 442-470) *)

\* SumWeights with the bug of counting 5 points for each check
SumWeightsFivesOnly(list, k) == IF k > Len(list) THEN 0 ELSE 5 * (Len(list) - k + 1)

RECURSIVE SumWeights(_, _)
\* checks.reduce((s, ch) => s + ch.w, 0), from position k on
SumWeights(list, k) == IF k > Len(list) THEN 0 ELSE list[k].w + SumWeights(list, k + 1)

\* Math.round((a / b) * 100) for integers a >= 0, b > 0.  No quotient the
\* program forms falls on a half that a / b misses in floating point.
RoundPercent(a, b) == (200 * a + b) \div (2 * b)

\* Grade with the bug of exclusive lower bounds
GradeExclusive(p) ==
    IF p > 80 THEN "Production Ready"
    ELSE IF p > 60 THEN "Getting There"
    ELSE IF p > 35 THEN "Needs Work"
    ELSE "Critical"

\* lines 463-467
Grade(p) ==
    IF p >= 80 THEN "Production Ready"
    ELSE IF p >= 60 THEN "Getting There"
    ELSE IF p >= 35 THEN "Needs Work"
    ELSE "Critical"

\* obj[key] = value on an object used as a map
Put(obj, key, value) ==
    [k \in DOMAIN obj \cup {key} |-> IF k = key THEN value ELSE obj[k]]

\* !dimScores[ch.cat] (line 450): the key is absent, or its value is 0
Falsy(obj, key) == key \notin DOMAIN obj \/ obj[key] = 0

\* lines 450-453
ResetIfFalsy(obj, key) == IF Falsy(dimScores, key) THEN Put(obj, key, 0) ELSE obj

\* Points with the bug of awarding nothing when --badge is given
PointsNoneWithBadge(result, w) == IF result.pass /\ ~badgeMode THEN w ELSE 0

\* Points with the bug of awarding nothing once a report has been printed
PointsOnFirstRunOnly(result, w) == IF result.pass /\ stdout.kind = "none" THEN w ELSE 0

\* Points with the bug of a bonus point for a passed check
PointsWithBonus(result, w) == IF result.pass THEN w + 1 ELSE 0

\* Points with the bug of one point for each passed check
PointsOneEach(result, w) == IF result.pass THEN 1 ELSE 0

\* line 456
Points(result, w) == IF result.pass THEN w ELSE 0

\* ExitStatus with the bug of an exclusive threshold
ExitStatusExclusive(p) == IF p > 60 THEN 0 ELSE 1

\* line 597
ExitStatus(p) == IF p >= 60 THEN 0 ELSE 1

-----------------------------------------------------------------------------
(* The renderers (lines 472-584) *)

RECURSIVE InsertByWeightBeforeTies(_, _)
\* InsertByWeight with the bug of putting r before the elements of its weight
InsertByWeightBeforeTies(sorted, r) ==
    IF Len(sorted) = 0 THEN <<r>>
    ELSE IF sorted[1].w > r.w THEN <<sorted[1]>> \o InsertByWeightBeforeTies(Tail(sorted), r)
    ELSE <<r>> \o sorted

RECURSIVE InsertByWeight(_, _)
\* puts r after the elements of the sorted list that weigh at least as much
InsertByWeight(sorted, r) ==
    IF Len(sorted) = 0 THEN <<r>>
    ELSE IF sorted[1].w >= r.w THEN <<sorted[1]>> \o InsertByWeight(Tail(sorted), r)
    ELSE <<r>> \o sorted

RECURSIVE SortByWeightDesc(_, _)
\* Array.prototype.sort((a, b) => b.w - a.w), which is stable
SortByWeightDesc(list, k) ==
    IF k = 0 THEN <<>> ELSE InsertByWeight(SortByWeightDesc(list, k - 1), list[k])

Failed(r) == ~r.result.pass

RECURSIVE Fixes(_)
Fixes(list) == IF Len(list) = 0 THEN <<>> ELSE <<list[1].fix>> \o Fixes(Tail(list))

TopFixCount == 5

\* lines 519-524: the remediation texts under "Top fixes"
TopFixes(res) ==
    LET failed == Pick(res, {k \in 1..Len(res) : Failed(res[k])})
        failures == SortByWeightDesc(failed, Len(failed))
    IN Fixes(SubSeq(failures, 1, IF Len(failures) < TopFixCount THEN Len(failures) ELSE TopFixCount))

\* lines 506-508, 552-557: score, total and percent of each dimension
Dimensions(scores, totals) ==
    [cat \in DOMAIN totals |->
        [score |-> scores[cat], total |-> totals[cat],
         percent |-> RoundPercent(scores[cat], totals[cat])]]

\* JsonCheck with the bug of writing the remediation text of every check
JsonCheckAlwaysFix(r) ==
    [dimension |-> r.cat, check |-> r.q, pass |-> r.result.pass,
     detail |-> r.result.detail, weight |-> r.w, fix |-> r.fix]

\* lines 560-567 with JSON.stringify, which leaves out a key that is undefined
JsonCheck(r) ==
    IF r.result.pass
    THEN [dimension |-> r.cat, check |-> r.q, pass |-> r.result.pass,
          detail |-> r.result.detail, weight |-> r.w]
    ELSE [dimension |-> r.cat, check |-> r.q, pass |-> r.result.pass,
          detail |-> r.result.detail, weight |-> r.w, fix |-> r.fix]

RECURSIVE JsonChecks(_)
JsonChecks(res) == IF Len(res) = 0 THEN <<>> ELSE <<JsonCheck(res[1])>> \o JsonChecks(Tail(res))

\* printJSON (lines 542-570)
printJSON ==
    [kind |-> "json", version |-> "1.0", score |-> pct, grade |-> grade,
     points |-> [earned |-> earned, total |-> totalPts],
     dimensions |-> Dimensions(dimScores, dimTotals),
     checks |-> JsonChecks(results)]

\* lines 574-577
BadgeColor(p) ==
    IF p < 35 THEN "red"
    ELSE IF p < 60 THEN "orange"
    ELSE IF p < 80 THEN "yellow"
    ELSE "brightgreen"

\* printBadge (lines 572-584)
printBadge == [kind |-> "badge", pct |-> pct, grade |-> grade, color |-> BadgeColor(pct)]

\* lines 482-492: the line of a check, and the detail under a failed one
HumanLine(r) ==
    [cat |-> r.cat, icon |-> IF r.result.pass THEN "[PASS]" ELSE "[FAIL]", q |-> r.q,
     detail |-> IF r.result.pass THEN "" ELSE r.result.detail]

RECURSIVE HumanLines(_)
HumanLines(res) == IF Len(res) = 0 THEN <<>> ELSE <<HumanLine(res[1])>> \o HumanLines(Tail(res))

\* printHuman (lines 472-540)
printHuman ==
    [kind |-> "human", lines |-> HumanLines(results), score |-> pct, grade |-> grade,
     points |-> [earned |-> earned, total |-> totalPts],
     dimensions |-> Dimensions(dimScores, dimTotals),
     topFixes |-> TopFixes(results),
     allPassed |-> \A k \in 1..Len(results) : ~Failed(results[k])]

-----------------------------------------------------------------------------
(* The environments the runs start from *)

\* { command: text }, { hooks: [...] }
CommandObject(text) == JObject(JString(text), JUndefined, JUndefined)
MatcherObject(hooks) == JObject(JUndefined, JUndefined, JArray(hooks))
\* { hooks: { event: value, ... } }, the settings document
SettingsObject(entries) == JObject(JUndefined, JUndefined, JDict(entries))
Entry(key, value) == [key |-> key, value |-> value]
At(path, entry) == <<path, entry>>

\* The settings files, each with the hook scripts beside it: none, a broken
\* document, a directory, {}, the nested form, the flat form, commands that
\* are numbers, a hook script with a safety pattern, a hook without one.
SettingsChoices == <<
    <<>>,
    <<At(SETTINGS_PATH, BrokenJsonFile)>>,
    <<At(SETTINGS_PATH, Directory)>>,
    <<At(SETTINGS_PATH, JsonFile(JObject(JUndefined, JUndefined, JUndefined)))>>,
    <<At(SETTINGS_PATH, JsonFile(SettingsObject(<<
        Entry("PreToolUse", JArray(<<MatcherObject(<<CommandObject("bash guard.sh --no-push")>>)>>)),
        Entry("PostToolUse", JArray(<<
            MatcherObject(<<CommandObject("eslint --fix"), CommandObject("error-log.sh")>>),
            MatcherObject(<<CommandObject("context-monitor.sh")>>)>>)),
        Entry("Stop", JArray(<<MatcherObject(<<
            CommandObject("session-summary.sh; idle-loop; question decision relay")>>)>>))>>)))>>,
    <<At(SETTINGS_PATH, JsonFile(SettingsObject(<<
        Entry("PreToolUse", JArray(<<JString("safe-rm.sh")>>)),
        Entry("PostToolUse", JArray(<<CommandObject("py_compile check")>>)),
        Entry("Stop", JObject(JUndefined, JString("proof-log.sh"), JUndefined))>>)))>>,
    <<At(SETTINGS_PATH, JsonFile(SettingsObject(<<
        Entry("PreToolUse", JArray(<<MatcherObject(<<
            JObject(JNumber(123), JUndefined, JUndefined)>>)>>))>>)))>>,
    <<At(SETTINGS_PATH, JsonFile(SettingsObject(<<
        Entry("PostToolUse", JArray(<<MatcherObject(<<
            CommandObject("lint"), JObject(JNumber(7), JUndefined, JUndefined)>>)>>))>>)))>>,
    <<At(SETTINGS_PATH, JsonFile(SettingsObject(<<
        Entry("PostToolUse", JArray(<<
            JObject(JNumber(7), JUndefined, JUndefined), JString("lint")>>))>>)))>>,
    <<At(SETTINGS_PATH, JsonFile(SettingsObject(<<
        Entry("PreToolUse", JArray(<<MatcherObject(<<
            CommandObject("python3 /opt/hooks/pre.py")>>)>>))>>))),
      At("/opt/hooks/pre.py", TextFile("if 'rm -rf' in cmd: BLOCK"))>>,
    <<At(SETTINGS_PATH, JsonFile(SettingsObject(<<
        Entry("PreToolUse", JArray(<<
            MatcherObject(<<CommandObject("sh hooks/echo.sh"), CommandObject(""), JNull>>),
            JNull,
            JObject(JUndefined, JUndefined, JUndefined)>>))>>))),
      At(PathJoin(HOME, "hooks/echo.sh"), TextFile("echo hi"))>>
>>

\* What may be at each of the four CLAUDE.md paths
HomeClaudeMd == <<
    <<>>,
    <<TextFile("# Rules\nDoD: Verify output. Backup first. Use a feature branch.\nOn error: block. Loop limit. Task queue. Don't ask. Memory. Team. Lessons.")>>,
    <<TextFile("API token = \"abcdefghij0123456789xyz\"")>>,
    <<Directory>>
>>
ConfigClaudeMd == <<
    <<>>,
    <<TextFile("Always VERIFY with a screenshot.\nPush to main only after review.")>>,
    <<NoPermFile>>
>>
ProjectClaudeMd == <<
    <<>>,
    <<TextFile("Keep backups. Retry 3 times, then escalate.")>>
>>
ProjectConfigClaudeMd == <<
    <<>>,
    <<TextFile("Lessons: never commit sk-ABCDEFGHIJ0123456789abcd")>>
>>

RECURSIVE Place(_, _)
\* the entries of a choice, at path
Place(path, choice) ==
    IF Len(choice) = 0 THEN <<>> ELSE <<At(path, choice[1])>> \o Place(path, Tail(choice))

\* The marker files and directories the checks look for (lines 124-127,
\* 169-171, 244-245, 300, 329-330, 358-360, 404, 430-431)
AllMarkers(cw) == <<
    At(PathJoin(CC_DIR, "memory"), Directory),
    At(PathJoin(CC_DIR, "projects"), Directory),
    At(PathJoin(PathJoin(HOME, "ops"), "mission.md"), TextFile("")),
    At(PathJoin(cw, "mission.md"), TextFile("")),
    At(PathJoin(PathJoin(cw, "tasks"), "todo.md"), TextFile("")),
    At(PathJoin(HOME, ".credentials"), TextFile("")),
    At(PathJoin(HOME, ".env"), TextFile("")),
    At(PathJoin(HOME, ".secrets"), TextFile("")),
    At(PathJoin(CC_DIR, "dod-checklists.md"), TextFile("")),
    At(PathJoin(cw, "dod-checklists.md"), TextFile("")),
    At(PathJoin(PathJoin(HOME, "ops"), "proof-log"), Directory),
    At(PathJoin(PathJoin(HOME, "bin"), "cc-solo-watchdog"), TextFile("")),
    At(PathJoin(PathJoin(HOME, ".claude"), "cc-solo-watchdog"), TextFile("")),
    At(PathJoin(PathJoin(HOME, "ops"), "task-queue.yaml"), TextFile("")),
    At(PathJoin(cw, "task-queue.yaml"), TextFile("")),
    At(PathJoin(PathJoin(HOME, "ops"), "decision-log.jsonl"), TextFile("")),
    At(PathJoin(PathJoin(cw, "tasks"), "lessons.md"), TextFile("")),
    At(PathJoin(cw, "LESSONS.md"), TextFile(""))
>>

\* no marker, every marker, a few of them
MarkerChoices(cw) == <<
    <<>>,
    AllMarkers(cw),
    <<At(PathJoin(HOME, ".env"), TextFile("")),
      At(PathJoin(CC_DIR, "projects"), Directory),
      At(PathJoin(cw, "LESSONS.md"), TextFile(""))>>
>>

\* the file system that holds the given entries
MakeFs(entries) ==
    [p \in {entries[k][1] : k \in 1..Len(entries)} |->
        entries[CHOOSE k \in 1..Len(entries) : entries[k][1] = p][2]]

\* the arguments after the script name: at most MaxArgs flags
MaxArgs == 2
Flags == {"--json", "--badge", "--verbose"}
ArgvChoices == UNION {[1..n -> Flags] : n \in 0..MaxArgs}

\* process.argv.includes(flag)
ArgvIncludes(argv, flag) == \E k \in 1..Len(argv) : argv[k] = flag

-----------------------------------------------------------------------------
(* The script, from module load to process.exit *)

Init ==
    /\ \E cw \in {HOME, PROJECT} :
       \E s \in 1..Len(SettingsChoices), m \in 1..Len(MarkerChoices(cw)),
          a \in 1..Len(HomeClaudeMd), b \in 1..Len(ConfigClaudeMd),
          c \in 1..Len(ProjectClaudeMd), d \in 1..Len(ProjectConfigClaudeMd) :
            /\ cw = HOME => (c = 1 /\ d = 1)
            /\ cwd = cw
            /\ fs = MakeFs(SettingsChoices[s] \o MarkerChoices(cw)[m]
                           \o Place(PathJoin(HOME, "CLAUDE.md"), HomeClaudeMd[a])
                           \o Place(PathJoin(PathJoin(HOME, ".claude"), "CLAUDE.md"), ConfigClaudeMd[b])
                           \o Place(PathJoin(cw, "CLAUDE.md"), ProjectClaudeMd[c])
                           \o Place(PathJoin(PathJoin(cw, ".claude"), "CLAUDE.md"),
                                    ProjectConfigClaudeMd[d]))
    /\ pc = "settings"
    /\ settings = JNull
    /\ allHooks = <<>>
    /\ allHookText = ""
    /\ claudeMdContents = ""
    /\ hasMemoryDir = FALSE
    /\ hasMissionMd = FALSE
    /\ jsonMode = FALSE
    /\ badgeMode = FALSE
    /\ idx = 0
    /\ earned = 0
    /\ results = <<>>
    /\ dimScores = <<>>
    /\ dimTotals = <<>>
    /\ totalPts = 0
    /\ pct = 0
    /\ grade = ""
    /\ stdout = [kind |-> "none"]
    /\ exitCode = -1
    /\ error = "none"

\* lines 103-105
LoadSettings ==
    /\ pc = "settings"
    /\ LET s == readJSON(SETTINGS_PATH)
           hooks == IF Truthy(s) THEN getAllHookCommands(s) ELSE <<>>
       IN /\ settings' = s
          /\ allHooks' = hooks
          /\ allHookText' = ToLowerCase(JoinWith(CommandStrings(hooks), "\n"))
    /\ pc' = "claudeMd"
    /\ UNCHANGED <<fs, cwd, claudeMdContents, hasMemoryDir, hasMissionMd, jsonMode,
                   badgeMode, idx, earned, results, dimScores, dimTotals, totalPts,
                   pct, grade, stdout, exitCode, error>>

\* an uncaught exception ends the process with status 1
Crash(what) ==
    /\ pc' = "crashed"
    /\ error' = what
    /\ exitCode' = 1

\* lines 107-121: readFileSync is called on every path that exists
LoadClaudeMd ==
    /\ pc = "claudeMd"
    /\ LET present == Pick(claudeMdPaths,
                           {k \in 1..Len(claudeMdPaths) : existsSync(claudeMdPaths[k])})
       IN IF \E k \in 1..Len(present) : ReadThrows(present[k])
          THEN /\ Crash("readFileSync")
               /\ UNCHANGED claudeMdContents
          ELSE /\ claudeMdContents' = JoinWith(LowerTexts(present), "\n")
               /\ pc' = "markers"
               /\ UNCHANGED <<error, exitCode>>
    /\ UNCHANGED <<fs, cwd, settings, allHooks, allHookText, hasMemoryDir, hasMissionMd,
                   jsonMode, badgeMode, idx, earned, results, dimScores, dimTotals,
                   totalPts, pct, grade, stdout>>

\* lines 123-127
CheckCommonFiles ==
    /\ pc = "markers"
    /\ hasMemoryDir' = (existsSync(PathJoin(CC_DIR, "memory"))
                        \/ existsSync(PathJoin(CC_DIR, "projects")))
    /\ hasMissionMd' = (\/ existsSync(PathJoin(PathJoin(HOME, "ops"), "mission.md"))
                        \/ existsSync(PathJoin(cwd, "mission.md"))
                        \/ existsSync(PathJoin(PathJoin(cwd, "tasks"), "todo.md")))
    /\ pc' = "args"
    /\ UNCHANGED <<fs, cwd, settings, allHooks, allHookText, claudeMdContents, jsonMode,
                   badgeMode, idx, earned, results, dimScores, dimTotals, totalPts,
                   pct, grade, stdout, exitCode, error>>

\* lines 587-588
ReadArgs ==
    /\ pc = "args"
    /\ \E argv \in ArgvChoices :
          /\ jsonMode' = ArgvIncludes(argv, "--json")
          /\ badgeMode' = ArgvIncludes(argv, "--badge")
    /\ pc' = "runChecks"
    /\ UNCHANGED <<fs, cwd, settings, allHooks, allHookText, claudeMdContents,
                   hasMemoryDir, hasMissionMd, idx, earned, results, dimScores,
                   dimTotals, totalPts, pct, grade, stdout, exitCode, error>>

\* lines 443-447: the call data = runChecks() begins
RunChecksBegin ==
    /\ pc = "runChecks"
    /\ totalPts' = SumWeights(checks, 1)
    /\ earned' = 0
    /\ results' = <<>>
    /\ dimScores' = <<>>
    /\ dimTotals' = <<>>
    /\ idx' = 0
    /\ pc' = "loop"
    /\ UNCHANGED <<fs, cwd, settings, allHooks, allHookText, claudeMdContents,
                   hasMemoryDir, hasMissionMd, jsonMode, badgeMode, pct, grade,
                   stdout, exitCode, error>>

\* lines 449-460: one iteration of the loop; an exception thrown by test()
\* is caught nowhere
CheckStep ==
    /\ pc = "loop"
    /\ idx < NumChecks
    /\ LET ch == checks[idx + 1]
           scores0 == ResetIfFalsy(dimScores, ch.cat)
           totals0 == ResetIfFalsy(dimTotals, ch.cat)
           totals1 == Put(totals0, ch.cat, totals0[ch.cat] + ch.w)
           result == Test(idx + 1)
       IN IF result.throws
          THEN /\ Crash("test")
               /\ dimScores' = scores0
               /\ dimTotals' = totals1
               /\ UNCHANGED <<idx, earned, results>>
          ELSE LET pts == Points(result, ch.w)
               IN /\ earned' = earned + pts
                  /\ dimScores' = Put(scores0, ch.cat, scores0[ch.cat] + pts)
                  /\ dimTotals' = totals1
                  /\ results' = Append(results,
                        [cat |-> ch.cat, q |-> ch.q, w |-> ch.w, fix |-> ch.fix,
                         result |-> [pass |-> result.pass, detail |-> result.detail],
                         pts |-> pts])
                  /\ idx' = idx + 1
                  /\ UNCHANGED <<pc, error, exitCode>>
    /\ UNCHANGED <<fs, cwd, settings, allHooks, allHookText, claudeMdContents,
                   hasMemoryDir, hasMissionMd, jsonMode, badgeMode, totalPts, pct,
                   grade, stdout>>

\* lines 462-469: runChecks returns
RunChecksEnd ==
    /\ pc = "loop"
    /\ idx = NumChecks
    /\ pct' = RoundPercent(earned, totalPts)
    /\ grade' = Grade(RoundPercent(earned, totalPts))
    /\ pc' = "render"
    /\ UNCHANGED <<fs, cwd, settings, allHooks, allHookText, claudeMdContents,
                   hasMemoryDir, hasMissionMd, jsonMode, badgeMode, idx, earned,
                   results, dimScores, dimTotals, totalPts, stdout, exitCode, error>>

\* lines 590-596
Render ==
    /\ pc = "render"
    /\ stdout' = IF jsonMode THEN printJSON
                 ELSE IF badgeMode THEN printBadge
                 ELSE printHuman
    /\ pc' = "exit"
    /\ UNCHANGED <<fs, cwd, settings, allHooks, allHookText, claudeMdContents,
                   hasMemoryDir, hasMissionMd, jsonMode, badgeMode, idx, earned,
                   results, dimScores, dimTotals, totalPts, pct, grade, exitCode, error>>

\* line 597
Exit ==
    /\ pc = "exit"
    /\ exitCode' = ExitStatus(pct)
    /\ pc' = "exited"
    /\ UNCHANGED <<fs, cwd, settings, allHooks, allHookText, claudeMdContents,
                   hasMemoryDir, hasMissionMd, jsonMode, badgeMode, idx, earned,
                   results, dimScores, dimTotals, totalPts, pct, grade, stdout, error>>

Next ==
    \/ LoadSettings
    \/ LoadClaudeMd
    \/ CheckCommonFiles
    \/ ReadArgs
    \/ RunChecksBegin
    \/ CheckStep
    \/ RunChecksEnd
    \/ Render
    \/ Exit

Spec == Init /\ [][Next]_vars

-----------------------------------------------------------------------------
(* The grade table on its own: every percent from 0 to MaxPercent *)

MaxPercent == 100

GradeInit ==
    /\ pc = "grading"
    /\ pct \in 0..MaxPercent
    /\ fs = <<>>
    /\ cwd = HOME
    /\ settings = JNull
    /\ allHooks = <<>>
    /\ allHookText = ""
    /\ claudeMdContents = ""
    /\ hasMemoryDir = FALSE
    /\ hasMissionMd = FALSE
    /\ jsonMode = FALSE
    /\ badgeMode = FALSE
    /\ idx = 0
    /\ earned = 0
    /\ results = <<>>
    /\ dimScores = <<>>
    /\ dimTotals = <<>>
    /\ totalPts = 0
    /\ grade = ""
    /\ stdout = [kind |-> "none"]
    /\ exitCode = -1
    /\ error = "none"

\* lines 463-467 applied to pct
AssignGrade ==
    /\ pc = "grading"
    /\ grade' = Grade(pct)
    /\ pc' = "graded"
    /\ UNCHANGED <<fs, cwd, settings, allHooks, allHookText, claudeMdContents,
                   hasMemoryDir, hasMissionMd, jsonMode, badgeMode, idx, earned,
                   results, dimScores, dimTotals, totalPts, pct, stdout, exitCode, error>>

GradeNext == AssignGrade

GradeSpec == GradeInit /\ [][GradeNext]_vars

-----------------------------------------------------------------------------
(* Notions the properties use *)

\* runChecks has returned its report
Reported == pc \in {"render", "exit", "exited"}

Categories == {checks[i].cat : i \in 1..NumChecks}

\* the positions of the checks of a category
ChecksOf(cat) == {i \in 1..NumChecks : checks[i].cat = cat}

RECURSIVE WeightOf(_)
\* the sum of the weights of the checks at the positions in S
WeightOf(S) ==
    IF S = {} THEN 0
    ELSE LET i == CHOOSE j \in S : TRUE IN checks[i].w + WeightOf(S \ {i})

RECURSIVE SumOf(_)
\* the sum of the values of a map
SumOf(f) ==
    IF DOMAIN f = {} THEN 0
    ELSE LET k == CHOOSE j \in DOMAIN f : TRUE
         IN f[k] + SumOf([j \in DOMAIN f \ {k} |-> f[j]])

\* the positions of the checks reported as passed
PassedChecks == {i \in 1..Len(results) : results[i].result.pass}

\* the settings file is missing, unreadable or not valid JSON
BadSettings == ReadThrows(SETTINGS_PATH) \/ ~fs[SETTINGS_PATH].parses

\* no hook entry, empty instruction text, no marker file or directory
EmptyInputs ==
    /\ allHooks = <<>>
    /\ claudeMdContents = ""
    /\ \A k \in 1..Len(AllMarkers(cwd)) : ~existsSync(AllMarkers(cwd)[k][1])

\* the inputs make the predicate of every check return pass
AllTriggered == \A i \in 1..NumChecks : ~Test(i).throws /\ Test(i).pass

\* the checks whose predicates read allHooks or allHookText, and those among
\* them that read nothing else
HookChecks == {1, 3, 4, 5, 6, 9, 10, 11, 13, 14, 16, 18, 19}
HookOnlyChecks == {1, 5, 6, 9, 10}

-----------------------------------------------------------------------------
(* Properties *)

\* C1: a run that reaches process.exit at the end of main exits with status
\* 0 exactly when pct >= 60 and with status 1 otherwise; status 0 goes with
\* the grades Production Ready and Getting There and with no other.
C1_ExitStatus ==
    pc = "exited" =>
        /\ exitCode \in {0, 1}
        /\ exitCode = 0 <=> pct >= 60
        /\ exitCode = 0 <=> grade \in {"Production Ready", "Getting There"}

\* a run that ends on the passing threshold itself
C1_Witness == pc = "exited" /\ pct = 60 /\ exitCode = 0

\* C2: the grade of a percent p: Production Ready from 80, Getting There
\* from 60 to 79, Needs Work from 35 to 59, Critical up to 34.
C2_GradeTable ==
    pc = "graded" =>
        /\ pct >= 80 => grade = "Production Ready"
        /\ (60 <= pct /\ pct <= 79) => grade = "Getting There"
        /\ (35 <= pct /\ pct <= 59) => grade = "Needs Work"
        /\ pct <= 34 => grade = "Critical"

\* the lower end of the top band has been graded
C2_Witness == pc = "graded" /\ pct = 80 /\ grade = "Production Ready"

\* C3 as stated: with empty inputs every check fails, earned and percent
\* are 0 and the grade is Critical.
C3_AllFailOnEmptyInputs ==
    (Reported /\ EmptyInputs) =>
        /\ PassedChecks = {}
        /\ earned = 0
        /\ pct = 0
        /\ grade = "Critical"

\* C3 amended: with empty inputs every check fails but the second (API
\* keys stored in dedicated files), which finds no key in the empty text
\* and passes; earned is 5, the percent is 5 and the grade is Critical.
C3_EmptyInputs ==
    (Reported /\ EmptyInputs) =>
        /\ PassedChecks = {2}
        /\ earned = 5
        /\ pct = 5
        /\ grade = "Critical"

\* a report on empty inputs
C3_Witness == pc = "exited" /\ EmptyInputs /\ Len(results) = NumChecks

\* C4: when the inputs trigger the predicate of every check, every check is
\* awarded its weight, earned equals totalPts, the percent is 100 and the
\* grade is Production Ready.
C4_AllTriggered ==
    (Reported /\ AllTriggered) =>
        /\ \A i \in 1..NumChecks : results[i].pts = checks[i].w
        /\ earned = totalPts
        /\ earned = WeightOf(1..NumChecks)
        /\ pct = 100
        /\ grade = "Production Ready"

\* a report on inputs that trigger every predicate
C4_Witness == pc = "exited" /\ AllTriggered

\* C5 as stated: a predicate that throws is caught by the loop, which
\* records the check as failed with a detail and 0 points and goes on.
C5_ThrowIsRecorded ==
    [][(pc = "loop" /\ idx < NumChecks /\ Test(idx + 1).throws) =>
          /\ pc' = "loop"
          /\ idx' = idx + 1
          /\ Len(results') = idx + 1
          /\ ~results'[idx + 1].result.pass
          /\ results'[idx + 1].result.detail # ""
          /\ results'[idx + 1].pts = 0
          /\ earned' = earned]_vars

\* C6 as stated: with a settings file that is missing, unreadable or not
\* valid JSON, reading it does not raise, the hook list is empty, and every
\* check that references hooks is reported failed with a non-empty detail.
C6_HookChecksAllFail ==
    BadSettings =>
        /\ pc = "claudeMd" => (error = "none" /\ allHooks = <<>>)
        /\ \A i \in HookChecks :
              i <= Len(results) =>
                 (~results[i].result.pass /\ results[i].result.detail # "")

\* C6 amended: with such a settings file, reading it does not raise, the
\* hook list and the hook text are empty and no predicate throws; every
\* check that reads hooks only (1, 5, 6, 9, 10) is reported failed, a check
\* that also reads the instruction text or marker files can pass on them,
\* and every reported check has a non-empty detail.
C6_BadSettings ==
    BadSettings =>
        /\ pc # "settings" => (allHooks = <<>> /\ allHookText = "")
        /\ pc = "claudeMd" => error = "none"
        /\ error # "test"
        /\ \A i \in HookOnlyChecks : i <= Len(results) => ~results[i].result.pass
        /\ \A i \in 1..Len(results) : results[i].result.detail # ""

\* a report made with a settings file that is not valid JSON
C6_Witness ==
    /\ pc = "exited"
    /\ existsSync(SETTINGS_PATH)
    /\ fs[SETTINGS_PATH].kind = "file"
    /\ ~fs[SETTINGS_PATH].parses
    /\ HookChecks \cap PassedChecks # {}

\* C7 as stated: the collection of the instruction text never raises: a
\* CLAUDE.md that exists and cannot be read contributes no text, and the
\* run goes on to the checks.
C7_UnreadableIsAbsent ==
    [][pc = "claudeMd" =>
          /\ pc' = "markers"
          /\ error' = "none"
          /\ claudeMdContents' =
                JoinWith(LowerTexts(Pick(claudeMdPaths,
                    {k \in 1..Len(claudeMdPaths) : ~ReadThrows(claudeMdPaths[k])})), "\n")]_vars

\* C8 as stated: in the report the dimension totals add up to totalPts, the
\* dimension scores add up to earned, the score of a dimension is the weight
\* of its passed checks, and pct is round(100 * earned / totalPts).
C8_ReportSums ==
    Reported =>
        /\ SumOf(dimTotals) = totalPts
        /\ SumOf(dimScores) = earned
        /\ \A cat \in Categories : dimScores[cat] = WeightOf(ChecksOf(cat) \cap PassedChecks)
        /\ 2 * (100 * earned - pct * totalPts) <= totalPts
        /\ 2 * (pct * totalPts - 100 * earned) < totalPts

\* C9 as stated: 20 checks in 6 dimensions of 4, 4, 3, 3, 3 and 3 checks,
\* with weights that sum to 100, so that the percent is the earned points.
C9_WeightsSumTo100 ==
    /\ NumChecks = 20
    /\ Cardinality(Categories) = 6
    /\ pc \notin {"settings", "claudeMd", "markers", "args", "runChecks", "crashed"}
          => totalPts = 100
    /\ Reported => pct = earned

\* C9 amended: 20 checks in 6 dimensions of 4, 4, 3, 3, 3 and 3 checks, with
\* weights that sum to 95, so that the percent is 100 * earned / 95 rounded
\* to the nearest integer.
C9_Registry ==
    /\ NumChecks = 20
    /\ Categories = {"Safety Guards", "Code Quality", "Monitoring", "Recovery",
                     "Autonomy", "Coordination"}
    /\ Cardinality(ChecksOf("Safety Guards")) = 4
    /\ Cardinality(ChecksOf("Code Quality")) = 4
    /\ \A cat \in {"Monitoring", "Recovery", "Autonomy", "Coordination"} :
          Cardinality(ChecksOf(cat)) = 3
    /\ pc \in {"loop", "render", "exit", "exited"} => totalPts = 95
    /\ Reported =>
          /\ 2 * (100 * earned - 95 * pct) <= 95
          /\ 2 * (95 * pct - 100 * earned) < 95

\* a report where the percent and the earned points differ
C9_Witness == pc = "exited" /\ earned = 57 /\ pct = 60 /\ totalPts = 95

\* the weight of the checks of a category among the first n of the registry
WeightIn(cat, n) == WeightOf(ChecksOf(cat) \cap 1..n)

\* C10 as stated: once the loop has gone through the registry, the weights of
\* Safety Guards sum to 20 and those of every other category to 15 or to 10.
C10_OthersSumTo15Or10 ==
    idx = NumChecks =>
        /\ WeightIn("Safety Guards", idx) = 20
        /\ \A cat \in Categories \ {"Safety Guards"} : WeightIn(cat, idx) \in {15, 10}

\* C10 amended: the weights of Safety Guards and of Code Quality sum to 20
\* each, those of Monitoring, Recovery and Autonomy to 15 each, and those of
\* Coordination to 10.
C10_CategoryWeights ==
    idx = NumChecks =>
        /\ WeightIn("Safety Guards", idx) = 20
        /\ WeightIn("Code Quality", idx) = 20
        /\ \A cat \in {"Monitoring", "Recovery", "Autonomy"} : WeightIn(cat, idx) = 15
        /\ WeightIn("Coordination", idx) = 10
        /\ \A cat \in Categories : WeightIn(cat, idx) \in {20, 15, 10}

\* a report in which every check of Code Quality was counted
C10_Witness ==
    /\ pc = "exited"
    /\ earned = totalPts
    /\ dimTotals["Code Quality"] = 20
    /\ dimTotals["Coordination"] = 10


-----------------------------------------------------------------------------
(* Properties of the renderers *)

\* the keys every entry of "checks" in the structured output carries
JsonCheckKeys == {"dimension", "check", "pass", "detail", "weight"}

\* C11: in the output of --json the entries of "checks" are the 20 checks in
\* registry order, each with dimension, check, pass, detail and weight; an
\* entry carries the remediation text "fix" exactly when its check failed.
C11_FixOnlyWhenFailed ==
    (pc \in {"exit", "exited"} /\ jsonMode) =>
        /\ stdout.kind = "json"
        /\ Len(stdout.checks) = NumChecks
        /\ \A i \in 1..NumChecks :
              LET e == stdout.checks[i]
              IN /\ JsonCheckKeys \subseteq DOMAIN e
                 /\ DOMAIN e \subseteq JsonCheckKeys \cup {"fix"}
                 /\ e.dimension = checks[i].cat
                 /\ e.check = checks[i].q
                 /\ e.weight = checks[i].w
                 /\ e.pass = results[i].result.pass
                 /\ e.detail = results[i].result.detail
                 /\ "fix" \in DOMAIN e <=> ~e.pass
                 /\ ~e.pass => (e.fix = checks[i].fix /\ e.fix # "")

\* a structured output with a passed check and a failed one
C11_Witness ==
    /\ pc = "exited"
    /\ stdout.kind = "json"
    /\ \E i, j \in 1..NumChecks : stdout.checks[i].pass /\ ~stdout.checks[j].pass

\* the positions of the checks reported as failed
FailedChecks == {i \in 1..Len(results) : ~results[i].result.pass}

\* the failed check j comes before the failed check i under "Top fixes":
\* it weighs more, or as much and stands earlier in the registry
Before(j, i) == checks[j].w > checks[i].w \/ (checks[j].w = checks[i].w /\ j < i)

\* the failed check that k - 1 failed checks come before
Ranked(k) == CHOOSE i \in FailedChecks : Cardinality({j \in FailedChecks : Before(j, i)}) = k - 1

\* min(5, number of failed checks)
TopLen == IF Cardinality(FailedChecks) < 5 THEN Cardinality(FailedChecks) ELSE 5

\* C12: "Top fixes" of the text output lists the remediation texts of
\* min(5, number of failed checks) failed checks and of no passed check, by
\* descending weight and, among equal weights, in registry order; a failed
\* check that is left out weighs no more than any listed one.
C12_TopFixes ==
    (pc \in {"exit", "exited"} /\ ~jsonMode /\ ~badgeMode) =>
        /\ stdout.kind = "human"
        /\ Len(stdout.topFixes) = TopLen
        /\ \A k \in 1..TopLen :
              /\ Ranked(k) \in FailedChecks
              /\ stdout.topFixes[k] = checks[Ranked(k)].fix
              /\ \A i \in PassedChecks : stdout.topFixes[k] # checks[i].fix
              /\ \A j \in 1..(k - 1) : Before(Ranked(j), Ranked(k))
              /\ \A i \in FailedChecks \ {Ranked(j) : j \in 1..TopLen} :
                    checks[i].w <= checks[Ranked(k)].w

\* a text output with more than five failed checks, one of them lighter
\* than the five listed
C12_Witness ==
    /\ pc = "exited"
    /\ stdout.kind = "human"
    /\ Cardinality(FailedChecks) > 5
    /\ Len(stdout.topFixes) = 5
    /\ 20 \in FailedChecks
    /\ \A k \in 1..5 : stdout.topFixes[k] # checks[20].fix

-----------------------------------------------------------------------------
(* Hook extraction on its own: settings documents in the nested form *)

MaxHooks == 2
MaxMatchers == 2

\* the hook objects a matcher may list: a command, an empty command, and a
\* command that is a number
HookValues ==
    <<CommandObject("guard.sh"), CommandObject(""), JObject(JNumber(7), JUndefined, JUndefined)>>

\* the lists of hook objects of one matcher, and the lists of those, with
\* each hook object given by its position in HookValues
HookLists == UNION {[1..n -> 1..Len(HookValues)] : n \in 0..MaxHooks}
MatcherLists == UNION {[1..n -> HookLists] : n \in 1..MaxMatchers}

\* { hooks: [...] } with the hook objects at the positions of a list
MatcherOf(list) == MatcherObject([j \in 1..Len(list) |-> HookValues[list[j]]])

\* { event: [{ hooks: [...] }, ...], Stop: [{ hooks: [{ script }, null] }] }
NestedDocument(event, lists) ==
    SettingsObject(<<
        Entry(event, JArray([k \in 1..Len(lists) |-> MatcherOf(lists[k])])),
        Entry("Stop", JArray(<<MatcherObject(<<
            JObject(JUndefined, JString("summary.sh"), JUndefined), JNull>>)>>))>>)

ExtractInit ==
    /\ \E event \in {"PreToolUse", "PostToolUse"}, lists \in MatcherLists :
          fs = MakeFs(<<At(SETTINGS_PATH, JsonFile(NestedDocument(event, lists)))>>)
    /\ cwd = HOME
    /\ pc = "settings"
    /\ settings = JNull
    /\ allHooks = <<>>
    /\ allHookText = ""
    /\ claudeMdContents = ""
    /\ hasMemoryDir = FALSE
    /\ hasMissionMd = FALSE
    /\ jsonMode = FALSE
    /\ badgeMode = FALSE
    /\ idx = 0
    /\ earned = 0
    /\ results = <<>>
    /\ dimScores = <<>>
    /\ dimTotals = <<>>
    /\ totalPts = 0
    /\ pct = 0
    /\ grade = ""
    /\ stdout = [kind |-> "none"]
    /\ exitCode = -1
    /\ error = "none"

ExtractNext == LoadSettings

ExtractSpec == ExtractInit /\ [][ExtractNext]_vars

RECURSIVE HooksOfMatchers(_, _)
\* the hook objects of the matchers of a list, one after the other
HooksOfMatchers(matchers, k) ==
    IF k > Len(matchers) THEN <<>>
    ELSE matchers[k].hooks.v \o HooksOfMatchers(matchers, k + 1)

\* a command object as the string of its command, when that is a string
AsCommandString(h) == IF h.t = "object" /\ h.command.t = "string" THEN h.command ELSE h

\* the flat form of a document in the nested form: each event maps to the
\* list of the hook objects of its matchers
FlatObjects(doc) ==
    SettingsObject([k \in 1..Len(doc.hooks.entries) |->
        Entry(doc.hooks.entries[k].key,
              JArray(HooksOfMatchers(doc.hooks.entries[k].value.v, 1)))])

\* the flat form with command strings in the place of command objects
FlatStrings(doc) ==
    LET flat == FlatObjects(doc).hooks.entries
    IN SettingsObject([k \in 1..Len(flat) |->
          Entry(flat[k].key,
                JArray([j \in 1..Len(flat[k].value.v) |-> AsCommandString(flat[k].value.v[j])]))])

\* a hook object with a command or a script that is a non-empty string
Recognized(h) ==
    /\ h.t = "object"
    /\ \/ (h.command.t = "string" /\ h.command.v # "")
       \/ (h.script.t = "string" /\ h.script.v # "")

\* the number of recognized hook objects of a document in the nested form
RecognizedCount(doc) ==
    LET flat == FlatObjects(doc).hooks.entries
    IN SumOf([k \in 1..Len(flat) |->
                Cardinality({j \in 1..Len(flat[k].value.v) : Recognized(flat[k].value.v[j])})])

\* C13 as stated: the nested form and the flat forms of the same commands
\* under the same events give the same list of pairs; an entry whose command
\* is empty or is not recognized is dropped, so that the list holds one pair
\* with a non-empty command text for each recognized entry; nothing is raised.
C13_SameSequence ==
    (pc = "claudeMd" /\ Truthy(settings)) =>
        /\ allHooks = getAllHookCommands(settings)
        /\ allHooks = getAllHookCommands(FlatObjects(settings))
        /\ allHooks = getAllHookCommands(FlatStrings(settings))
        /\ error = "none"
        /\ Len(allHooks) = RecognizedCount(settings)
        /\ \A k \in 1..Len(allHooks) :
              allHooks[k].command.t = "string" /\ allHooks[k].command.v # ""

-----------------------------------------------------------------------------
(* Properties of the command line and of the scoring as a whole *)

\* the checks whose predicates pass on the inputs collected, whatever the
\* command line
Passing == {i \in 1..NumChecks : ~Test(i).throws /\ Test(i).pass}

\* the percent that gives a set of passing checks
PercentOf(passing) == RoundPercent(WeightOf(passing), WeightOf(1..NumChecks))

\* C14: the flags change the presentation only.  The report of runChecks and
\* the exit status are those the collected inputs give, whatever the flags;
\* nothing is printed before runChecks has returned, and what is printed
\* before the exit is the output of one renderer: the structured one with
\* --json, else the badge with --badge, else the text.
C14_FlagsChangePresentationOnly ==
    /\ Reported =>
          LET passing == Passing
              percent == PercentOf(passing)
          IN /\ PassedChecks = passing
             /\ earned = WeightOf(passing)
             /\ pct = percent
             /\ grade = Grade(percent)
             /\ pc = "exited" => exitCode = (IF percent >= 60 THEN 0 ELSE 1)
    /\ pc \notin {"exit", "exited"} => stdout.kind = "none"
    /\ pc \in {"exit", "exited"} =>
          stdout = (IF jsonMode THEN printJSON ELSE IF badgeMode THEN printBadge ELSE printHuman)

\* a run with both flags has printed the structured output, and a run of the
\* same percent without flags would exit the same way
C14_Witness ==
    /\ pc = "exited"
    /\ jsonMode
    /\ badgeMode
    /\ stdout.kind = "json"
    /\ pct = 60
    /\ exitCode = 0

-----------------------------------------------------------------------------
(* runChecks called a second time on the same inputs *)

\* after the structured output of a run, data = runChecks() is evaluated
\* again; stdout keeps the output of the run before
RunAgain ==
    /\ pc = "exit"
    /\ jsonMode
    /\ pc' = "runChecks"
    /\ UNCHANGED <<fs, cwd, settings, allHooks, allHookText, claudeMdContents,
                   hasMemoryDir, hasMissionMd, jsonMode, badgeMode, idx, earned,
                   results, dimScores, dimTotals, totalPts, pct, grade, stdout,
                   exitCode, error>>

TwiceNext ==
    \/ Next
    \/ RunAgain

TwiceSpec == Init /\ [][TwiceNext]_vars

\* runChecks has returned once more after a run whose report was printed
ReturnedAgain == pc = "render" /\ stdout.kind = "json"

-----------------------------------------------------------------------------
(* Properties of the loop of runChecks *)

\* the loop of runChecks is running or has returned
InOrAfterLoop == pc = "loop" \/ Reported

\* C16: while the loop of runChecks runs and in its report, the checks
\* evaluated so far are the first idx checks of the registry, once each and
\* in order, each awarded its weight or 0; the score of every dimension seen
\* lies between 0 and its total; earned lies between 0 and the weight of the
\* checks evaluated, which is at most totalPts; the final pct lies in 0..100.
C16_LoopBounds ==
    InOrAfterLoop =>
        /\ idx \in 0..NumChecks
        /\ Len(results) = idx
        /\ \A i \in 1..idx :
              /\ results[i].q = checks[i].q
              /\ results[i].cat = checks[i].cat
              /\ results[i].pts \in {0, checks[i].w}
              /\ results[i].pts = checks[i].w <=> results[i].result.pass
        /\ DOMAIN dimScores = {checks[i].cat : i \in 1..idx}
        /\ DOMAIN dimTotals = DOMAIN dimScores
        /\ \A cat \in DOMAIN dimScores : 0 <= dimScores[cat] /\ dimScores[cat] <= dimTotals[cat]
        /\ 0 <= earned
        /\ earned <= WeightOf(1..idx)
        /\ WeightOf(1..idx) <= totalPts
        /\ Reported => (idx = NumChecks /\ pct \in 0..100)

\* the loop between two checks, after a passed check and a failed one of the
\* same dimension
C16_Witness ==
    /\ pc = "loop"
    /\ idx < NumChecks
    /\ 0 < earned
    /\ earned < WeightOf(1..idx)
    /\ \E cat \in DOMAIN dimScores : 0 < dimScores[cat] /\ dimScores[cat] < dimTotals[cat]
=============================================================================
